---- MODULE Spec2Model ----
(***************************************************************************)
(* The authenticated HTTP client of echobrief-frontend (src/lib/api.ts)    *)
(* together with the AuthProvider that drives it (contexts/AuthContext).   *)
(*                                                                         *)
(* Scheduling: the browser event loop.  Every arrival of a network answer  *)
(* is one turn; the interceptor that handles it and the promise            *)
(* continuations it wakes (microtasks) run to completion inside that turn, *)
(* up to the next network wait.  One action of the model is one such turn. *)
(*                                                                         *)
(* The Onboarding wizard (pages/Podcasts.tsx, component Onboarding) is a   *)
(* second state machine over its own variables, OnboardingSpec.  The       *)
(* Podcasts page (list: PodcastsSpec, player: PlayerSpec) and the topic    *)
(* preferences of the Profile page (ProfileSpec) are further ones.         *)
(***************************************************************************)
EXTENDS Naturals, Sequences, FiniteSets

\* ---------------------------------------------------------------- bounds
MaxReq == 2

\* most topics the backend lists
MaxTopics == 4

Req == 1..MaxReq

\* ---------------------------------------------------------------- values
\* localStorage.getItem of a missing key
Null == "<null>"

AccessTokens  == {"", "a1", "a2"}
RefreshTokens == {"", "r1", "r2"}

\* credential pairs the backend hands out (login and refresh responses);
\* the second one is the degenerate body with empty strings
Pairs ==
    { [access_token |-> "a2", refresh_token |-> "r2"],
      [access_token |-> "",   refresh_token |-> ""] }

NoCredentials == [access_token |-> Null, refresh_token |-> Null]

\* what a previous page load may have left in localStorage
InitialStorages == { NoCredentials, [access_token |-> "a1", refresh_token |-> "r1"] }

\* answers of the backend to a transmission: a status, or no response at all
Statuses == {"200", "401", "500", "network"}

\* answers of the refresh endpoint
RefreshOutcomes ==
    { [kind |-> "ok", pair |-> p] : p \in Pairs }
      \cup { [kind |-> "malformed"] }
      \cup { [kind |-> "error", status |-> s] : s \in {"401", "500", "network"} }

\* who awaits the request
Callers == {"view", "refreshUser", "initAuth"}

\* request paths (relative to baseURL /api/v1)
ViewUrls == {"/auth/login"}
MeUrl == "/users/me"

\* the Authorization header of a request config
NoAuth == [scheme |-> "none", token |-> Null]

Bearer(tok) == [scheme |-> "Bearer", token |-> tok]

\* JavaScript truthiness of a string-or-null
Truthy(tok) == tok # Null /\ tok # ""

\* ---------------------------------------------------------------- state
VARIABLES
    storage,     \* localStorage: access_token, refresh_token
    req,         \* per request: pc, url, caller, _retry, Authorization, refresh body
    result,      \* per request: how the caller's promise settled
    log,         \* per request: the statements executed on its behalf, in order
    navPending,  \* window.location.href = "/auth" was assigned, page not yet unloaded
    user,        \* AuthProvider: published user
    isLoading,   \* AuthProvider: loading flag
    initPc,      \* AuthProvider: position of the initAuth effect
    wizard,          \* Onboarding: mounted ("open") or navigated away ("left")
    step,            \* Onboarding: step
    selectedPlan,    \* Onboarding: selectedPlan
    selectedTopics,  \* Onboarding: the ids held by the selectedTopics array
    topics,          \* Onboarding: the ids of the topics array, {} until fetched
    topicsFetch,     \* Onboarding: position of the fetchTopics effect
    isSubmitting,    \* Onboarding: isSubmitting
    formData,        \* Onboarding: the form of the POST /users/onboarding in flight
    library,         \* backend: status of each podcast of the user, "absent" if none
    podcasts,        \* Podcasts: the podcasts array (id and status of each item)
    page,            \* Podcasts: page
    total,           \* Podcasts: total
    hasMore,         \* Podcasts: hasMore
    pageSize,        \* Podcasts: pageSize
    debouncedSearch, \* Podcasts: debouncedSearch
    listLoading,     \* Podcasts: isLoading
    isLoadingMore,   \* Podcasts: isLoadingMore
    fetches,         \* Podcasts: the fetchPodcasts calls awaiting their answer
    poll,            \* Podcasts: the closure of the polling interval, NoPoll if none
    currentPodcast,  \* Podcasts: currentPodcast
    isPlaying,       \* Podcasts: isPlaying
    audioSrc,        \* Podcasts: the podcast whose audio_url is the <audio> src
    audioPaused,     \* Podcasts: the paused attribute of the <audio> element
    userTopics,      \* backend: the topics the user follows
    allTopics,       \* Profile: the ids of the allTopics array, {} until fetched
    profileTopics,   \* Profile: the ids held by the selectedTopics array
    profileLoading,  \* Profile: isLoading
    profilePlan,     \* Profile: user.plan_type
    toggles          \* Profile: the handleToggleTopic calls awaiting their answer

apiVars == <<storage, req, result, log, navPending, user, isLoading, initPc>>

onbVars ==
    <<wizard, step, selectedPlan, selectedTopics, topics, topicsFetch,
      isSubmitting, formData>>

podVars ==
    <<library, podcasts, page, total, hasMore, pageSize, debouncedSearch,
      listLoading, isLoadingMore, fetches, poll, currentPodcast, isPlaying,
      audioSrc, audioPaused>>

profVars ==
    <<userTopics, allTopics, profileTopics, profileLoading, profilePlan, toggles>>

vars == <<apiVars, onbVars, podVars, profVars>>

IdleReq ==
    [pc |-> "idle", url |-> Null, caller |-> "view", retry |-> FALSE,
     auth |-> NoAuth, refreshBody |-> Null]

\* a settled request: its config object and its log are dropped, the slot keeps
\* only how the promise settled (in result)
DoneReq == [IdleReq EXCEPT !.pc = "done"]

Pending == [kind |-> "pending"]

\* ---------------------------------------------------------------- log
Ev(e) == [ev |-> e]

Count(s, e) == Cardinality({ i \in 1..Len(s) : s[i].ev = e })

Has(s, e) == \E i \in 1..Len(s) : s[i].ev = e

Last(s, e) == CHOOSE i \in 1..Len(s) : s[i].ev = e /\ \A j \in (i+1)..Len(s) : s[j].ev # e

\* ---------------------------------------------------------------- api.ts
\* variant: the header is written without looking whether a token is stored
RequestInterceptor_Always(st, auth) == Bearer(st.access_token)

\* request interceptor: attach the stored access token when there is one
RequestInterceptor(st, auth) ==
    IF Truthy(st.access_token) THEN Bearer(st.access_token) ELSE auth

\* variant: the retry marker is not consulted
ShouldRefresh_IgnoreMarker(status, retry) == status = "401"

\* the guard of the refresh branch of the response error handler
ShouldRefresh(status, retry) == status = "401" /\ ~retry

\* localStorage.removeItem of both keys
RemoveCredentials(st) ==
    [st EXCEPT !.access_token = Null, !.refresh_token = Null]

\* variant: only the access token is written
SetCredentials_AccessOnly(st, pair) ==
    [st EXCEPT !.access_token = pair.access_token]

\* variant: a pair is written only over the pair the page started with
SetCredentials_FirstWins(st, pair) ==
    IF st \in Pairs
    THEN st
    ELSE [st EXCEPT !.access_token = pair.access_token,
                    !.refresh_token = pair.refresh_token]

\* localStorage.setItem of both keys from a refresh or login body
SetCredentials(st, pair) ==
    [st EXCEPT !.access_token = pair.access_token,
               !.refresh_token = pair.refresh_token]

\* variant: the header of the original request is left as it was sent
RefreshedAuth_Unchanged(rq, pair) == rq

\* originalRequest.headers.Authorization = `Bearer ${access_token}`
RefreshedAuth(rq, pair) == [rq EXCEPT !.auth = Bearer(pair.access_token)]

\* the error object axios rejects with for transmission n of a request
ApiError(n, status) == [call |-> "api", n |-> n, status |-> status]

\* the response object of a successful transmission n
ApiResponse(n) == [call |-> "api", n |-> n, status |-> "200"]

\* the error the catch block receives from the refresh step
RefreshError(out) ==
    IF out.kind = "malformed"
    THEN [call |-> "refresh", n |-> 1, status |-> "TypeError"]
    ELSE [call |-> "refresh", n |-> 1, status |-> out.status]

Resolved(v) == [kind |-> "resolved", value |-> v]

Rejected(e) == [kind |-> "rejected", value |-> e]

\* one run of an interceptor callback: the storage it leaves, the request
\* config it leaves, whether it assigned window.location.href, how it settled
\* the caller's promise (Pending when it went back to waiting), and the
\* statements it executed
Step(st, rq, nav, outcome, evs) ==
    [storage |-> st, rq |-> rq, nav |-> nav, outcome |-> outcome, evs |-> evs]

\* api(config): the request interceptor runs, then the request is transmitted
Dispatch(st, rq) ==
    [rq EXCEPT !.pc = "inflight", !.auth = RequestInterceptor(st, rq.auth)]

SendEv(st, rq) == [ev |-> "send", auth |-> Dispatch(st, rq).auth]

\* variant: the success handler hands on the body instead of the response
OnFulfilled_Unwrap(st, rq, response) ==
    Step(st, [rq EXCEPT !.pc = "done"], FALSE,
         Resolved([call |-> "data", n |-> response.n, status |-> "200"]), <<>>)

\* (response) => response
OnFulfilled(st, rq, response) ==
    Step(st, [rq EXCEPT !.pc = "done"], FALSE, Resolved(response), <<>>)

\* variant: the resend is awaited inside the try block, so its failure lands in
\* the catch block of the refresh
Propagate_AwaitedResend(st, rq, error) ==
    IF rq.retry
    THEN Step(RemoveCredentials(st), [rq EXCEPT !.pc = "done"], TRUE, Rejected(error),
              <<Ev("clear"), Ev("redirect")>>)
    ELSE Step(st, [rq EXCEPT !.pc = "done"], FALSE, Rejected(error), <<>>)

\* variant: a propagated failure is handed to the caller as a value
Propagate_Swallow(st, rq, error) ==
    Step(st, [rq EXCEPT !.pc = "done"], FALSE, Resolved(error), <<>>)

\* variant: every propagated failure also removes the credentials
Propagate_Clear(st, rq, error) ==
    Step(RemoveCredentials(st), [rq EXCEPT !.pc = "done"], FALSE, Rejected(error),
         <<Ev("clear")>>)

\* variant: every propagated failure also redirects
Propagate_Redirect(st, rq, error) ==
    Step(st, [rq EXCEPT !.pc = "done"], TRUE, Rejected(error), <<Ev("redirect")>>)

\* the final `return Promise.reject(error)`
Propagate(st, rq, error) ==
    Step(st, [rq EXCEPT !.pc = "done"], FALSE, Rejected(error), <<>>)

\* variant: the branch leaves the stored access token in place
NoRefreshToken_KeepAccess(st, rq, error) ==
    Step([st EXCEPT !.refresh_token = Null], [rq EXCEPT !.pc = "done"], TRUE,
         Rejected(error), <<Ev("clear"), Ev("redirect")>>)

\* variant: the branch redirects and leaves both keys in place
NoRefreshToken_RedirectOnly(st, rq, error) ==
    Step(st, [rq EXCEPT !.pc = "done"], TRUE, Rejected(error), <<Ev("redirect")>>)

\* the `if (!refreshToken)` branch
NoRefreshToken(st, rq, error) ==
    Step(RemoveCredentials(st), [rq EXCEPT !.pc = "done"], TRUE, Rejected(error),
         <<Ev("clear"), Ev("redirect")>>)

\* variant: a request whose header is older than the stored access token takes
\* the stored pair as already refreshed and is resent without a refresh call
StartRefresh_Dedup(st, rq, refreshToken) ==
    IF rq.auth # Bearer(st.access_token)
    THEN Step(st, Dispatch(st, rq), FALSE, Pending, <<SendEv(st, rq)>>)
    ELSE Step(st, [rq EXCEPT !.pc = "refreshing", !.refreshBody = refreshToken],
              FALSE, Pending,
              <<[ev |-> "refresh_call", token |-> refreshToken, auth |-> NoAuth]>>)

\* variant: the refresh call is made with the client instance, so the request
\* interceptor runs on it
StartRefresh_ViaApi(st, rq, refreshToken) ==
    Step(st, [rq EXCEPT !.pc = "refreshing", !.refreshBody = refreshToken], FALSE,
         Pending,
         <<[ev |-> "refresh_call", token |-> refreshToken,
            auth |-> RequestInterceptor(st, NoAuth)]>>)

\* await axios.post("/api/v1/auth/refresh", { refresh_token }): the call is made
\* with the axios default instance, which has no interceptors; its body holds
\* the refresh token and it carries no Authorization header
StartRefresh(st, rq, refreshToken) ==
    Step(st, [rq EXCEPT !.pc = "refreshing", !.refreshBody = refreshToken], FALSE,
         Pending,
         <<[ev |-> "refresh_call", token |-> refreshToken, auth |-> NoAuth]>>)

\* async (error) => { ... } up to the first await or return
OnRejected(st, rq, error) ==
    IF ShouldRefresh(error.status, rq.retry)
    THEN LET marked == [rq EXCEPT !.retry = TRUE]
             refreshToken == st.refresh_token
         IN  IF ~Truthy(refreshToken)
             THEN NoRefreshToken(st, marked, error)
             ELSE StartRefresh(st, marked, refreshToken)
    ELSE Propagate(st, rq, error)

\* the continuation after the await when the refresh call returned a pair
RefreshSucceeded(st, rq, pair) ==
    LET st1 == SetCredentials(st, pair)
        rq1 == RefreshedAuth(rq, pair)
    IN  Step(st1, Dispatch(st1, rq1), FALSE, Pending,
             <<[ev |-> "persist", pair |-> pair], SendEv(st1, rq1)>>)

\* variant: the catch block keeps a pair that is newer than the refresh token
\* its own refresh call was made with
RefreshFailed_KeepNewer(st, rq, refreshError) ==
    IF st.refresh_token # rq.refreshBody /\ Truthy(st.refresh_token)
    THEN Step(st, [rq EXCEPT !.pc = "done"], FALSE, Rejected(refreshError), <<>>)
    ELSE Step(RemoveCredentials(st), [rq EXCEPT !.pc = "done"], TRUE,
              Rejected(refreshError), <<Ev("clear"), Ev("redirect")>>)

\* variant: the catch block rejects with the error of the original request
RefreshFailed_OriginalError(st, rq, refreshError) ==
    Step(RemoveCredentials(st), [rq EXCEPT !.pc = "done"], TRUE,
         Rejected(ApiError(1, "401")), <<Ev("clear"), Ev("redirect")>>)

\* variant: the catch block still resends the original request
RefreshFailed_Resend(st, rq, refreshError) ==
    LET st1 == RemoveCredentials(st)
    IN  Step(st1, Dispatch(st1, rq), TRUE, Pending,
             <<Ev("clear"), Ev("redirect"), SendEv(st1, rq)>>)

\* catch (refreshError) { ... }
RefreshFailed(st, rq, refreshError) ==
    Step(RemoveCredentials(st), [rq EXCEPT !.pc = "done"], TRUE,
         Rejected(refreshError), <<Ev("clear"), Ev("redirect")>>)

\* variant: the body is read with defaults instead of being destructured, so
\* a missing envelope yields undefined tokens and no exception
OnRefreshAnswer_Lenient(st, rq, out) ==
    IF out.kind = "ok"
    THEN RefreshSucceeded(st, rq, out.pair)
    ELSE IF out.kind = "malformed"
         THEN RefreshSucceeded(st, rq, [access_token |-> "undefined",
                                        refresh_token |-> "undefined"])
         ELSE RefreshFailed(st, rq, RefreshError(out))

\* the continuation after the await: `const { access_token, refresh_token } =
\* response.data.data` throws a TypeError inside the try block when the
\* envelope is missing, which the catch block receives like a failed call
OnRefreshAnswer(st, rq, out) ==
    IF out.kind = "ok"
    THEN RefreshSucceeded(st, rq, out.pair)
    ELSE RefreshFailed(st, rq, RefreshError(out))

\* ---------------------------------------------------------------- AuthContext
\* variant: the catch block of refreshUser does not call logout
CallerStorage_NoLogout(caller, outcome, st) == st

\* what the awaiting caller does with the settled promise, in the same turn
CallerStorage(caller, outcome, st) ==
    IF caller \in {"refreshUser", "initAuth"} /\ outcome.kind = "rejected"
    THEN RemoveCredentials(st)
    ELSE st

NoUser == [kind |-> "none"]

\* the profile carried by a /users/me response
Profile(response) == [kind |-> "user", from |-> response]

\* variant: the catch block of refreshUser leaves the published user in place
CallerUser_KeepOnFailure(caller, outcome, usr) ==
    IF caller \in {"refreshUser", "initAuth"} /\ outcome.kind = "resolved"
    THEN Profile(outcome.value)
    ELSE usr

\* setUser(response.data.data) in refreshUser, setUser(null) in its logout
CallerUser(caller, outcome, usr) ==
    IF caller \in {"refreshUser", "initAuth"}
    THEN IF outcome.kind = "resolved" THEN Profile(outcome.value) ELSE NoUser
    ELSE usr

\* variant: initAuth does not clear the flag after the awaited refreshUser
CallerLoading_Keep(caller, loading) == loading

\* setIsLoading(false) after `await refreshUser()`
CallerLoading(caller, loading) ==
    IF caller = "initAuth" THEN FALSE ELSE loading

\* ---------------------------------------------------------------- Onboarding
\* the literal 3 of `selectedPlan === "free" ? 3 : topics.length`
FreeMaxTopics == 3

\* the last step of the wizard (`step < 4`)
LastStep == 4

Plans == {"free", "paid"}

\* The two arrays of the wizard never hold an id twice (topics come from the
\* backend by id, toggleTopic appends only an id that is not included), so
\* each is modelled by the set of its ids and its length by the cardinality.
NoForm == [plan_type |-> "none", topic_ids |-> {}]

\* the ids of a GET /topics/ answer with n items
TopicList(n) == 1..n

\* selectedTopics.includes(topicId)
Includes(sel, topicId) == topicId \in sel

\* selectedTopics.filter(t => t !== topicId)
Without(sel, topicId) == { t \in sel : t # topicId }

\* const maxTopics = selectedPlan === "free" ? 3 : topics.length
maxTopics(plan, tps) == IF plan = "free" THEN FreeMaxTopics ELSE Cardinality(tps)

\* toggleTopic(topicId)
toggleTopic(sel, topicId, plan, tps) ==
    IF Includes(sel, topicId)
    THEN Without(sel, topicId)
    ELSE IF Cardinality(sel) < maxTopics(plan, tps)
         THEN sel \cup {topicId}
         ELSE sel

\* the `disabled` attribute of a topic button
isDisabled(sel, topicId, plan, tps) ==
    ~Includes(sel, topicId) /\ Cardinality(sel) >= maxTopics(plan, tps)

OnboardingInit ==
    /\ wizard = "open"
    /\ step = 1
    /\ selectedPlan = "free"
    /\ selectedTopics = {}
    /\ topics = {}
    /\ topicsFetch = "pending"
    /\ isSubmitting = FALSE
    /\ formData = NoForm

\* ---------------------------------------------------------------- Podcasts page
\* The Podcasts page (pages/Podcasts.tsx, component Podcasts) with the backend's
\* podcast library behind GET /podcasts/.  The page sizes of the selector
\* ([5, 10, 20]) are scaled to the size of the library: 1..MaxPageSize.
MaxPodcasts == 2

MaxPageSize == 2

\* fetchPodcasts calls in flight at once
MaxFetch == 2

PodcastIds == 1..MaxPodcasts

PodcastStatuses == {"pending", "processing", "completed", "failed"}

Searches == {"", "q"}

PageSizes == 1..MaxPageSize

\* currentPodcast === null
NoPodcast == [id |-> 0, status |-> "none"]

\* a Podcast object as the backend serialises it: the fields the page reads
Item(id, lib) == [id |-> id, status |-> lib[id]]

\* backend: the search parameter selects a part of the library (here: every
\* second podcast); no parameter selects all of it
Matches(id, search) == search = "" \/ id % 2 = 0

\* backend: the podcasts the parameters select, newest first
RECURSIVE Listing(_, _, _)
Listing(lib, search, n) ==
    IF n = 0
    THEN <<>>
    ELSE (IF lib[n] # "absent" /\ Matches(n, search) THEN <<Item(n, lib)>> ELSE <<>>)
         \o Listing(lib, search, n - 1)

\* backend: page `pageNum` of `per_page` items
PageOf(list, pageNum, perPage) ==
    SubSeq(list, (pageNum - 1) * perPage + 1,
           IF pageNum * perPage < Len(list) THEN pageNum * perPage ELSE Len(list))

\* podcasts.some(p => p.status === 'processing' || p.status === 'pending')
hasProcessing(list) ==
    \E i \in 1..Len(list) : list[i].status \in {"processing", "pending"}

\* what a function created by one render sees of the state: page,
\* debouncedSearch, pageSize and whether currentPodcast is set
Closure(pg, search, size, cur) ==
    [page |-> pg, search |-> search, per_page |-> size, hadCurrent |-> cur # NoPodcast]

\* the polling effect: an interval over the closure of its render while the
\* list has a podcast in progress, none otherwise
NoPoll == [page |-> 0, search |-> "", per_page |-> 0, hadCurrent |-> FALSE]

PollingEffect(list, c) == IF hasProcessing(list) THEN c ELSE NoPoll

\* fetchPodcasts(pageNum, append, silent) up to its await: the params object
\* and the const currentPodcast it will read after the await
FetchCall(pageNum, append, silent, c) ==
    [pageNum |-> pageNum, append |-> append, silent |-> silent,
     search |-> c.search, per_page |-> c.per_page, hadCurrent |-> c.hadCurrent]

\* response.data.data.items
newPodcasts(f, lib) == PageOf(Listing(lib, f.search, MaxPodcasts), f.pageNum, f.per_page)

\* response.data.data.total
totalCount(f, lib) == Len(Listing(lib, f.search, MaxPodcasts))

\* setPodcasts after the await
PodcastsAfter(list, f, items) == IF f.append THEN list \o items ELSE items

\* setCurrentPodcast(newPodcasts[0]) after the await
CurrentAfter(cur, f, items) ==
    IF ~f.append /\ ~f.hadCurrent /\ Len(items) > 0 THEN items[1] ELSE cur

\* currentPodcast?.audio_url: the backend sets audio_url when it completes a
\* podcast
HasAudio(p) == p # NoPodcast /\ p.status = "completed"

\* the audio effect: audioRef.current.src
AudioSrcAfter(cur, src) == IF HasAudio(cur) THEN cur.id ELSE src

\* the audio effect: play() or pause()
AudioPausedAfter(cur, playing, paused) == IF HasAudio(cur) THEN ~playing ELSE paused

PodcastsInit ==
    /\ library = [id \in PodcastIds |-> "absent"]
    /\ podcasts = <<>>
    /\ page = 1
    /\ total = 0
    /\ hasMore = FALSE
    /\ pageSize = MaxPageSize
    /\ debouncedSearch = ""
    /\ listLoading = TRUE
    /\ isLoadingMore = FALSE
    /\ fetches = << FetchCall(1, FALSE, FALSE, Closure(1, "", MaxPageSize, NoPodcast)) >>
    /\ poll = NoPoll
    /\ currentPodcast = NoPodcast
    /\ isPlaying = FALSE
    /\ audioSrc = 0
    /\ audioPaused = TRUE

\* ---------------------------------------------------------------- Profile page
\* The topic preferences of the Profile page (pages/Profile.tsx) with the
\* backend's list of the user's topics behind /users/topics.  The
\* selectedTopics array never holds a topic twice and is modelled by the set
\* of its ids.
MaxToggles == 2

\* the literal 3 of `selectedTopics.length >= 3 && user?.plan_type === 'free'`
ProfileFreeLimit == 3

ProfileTopicIds == TopicList(MaxTopics)

\* selectedTopics.some(t => t.id === topic.id)
isSelected(sel, topicId) == topicId \in sel

\* the optimistic update of handleToggleTopic
OptimisticTopics(sel, topicId) ==
    IF isSelected(sel, topicId) THEN Without(sel, topicId) ELSE sel \cup {topicId}

\* DELETE /users/topics/{id} or POST /users/topics accepted by the backend
AcceptedTopics(server, t) ==
    IF t.isSelected THEN Without(server, t.topic) ELSE server \cup {t.topic}

ProfileInit ==
    /\ userTopics = {}
    /\ allTopics = {}
    /\ profileTopics = {}
    /\ profileLoading = TRUE
    /\ profilePlan = "free"
    /\ toggles = <<>>

\* ---------------------------------------------------------------- actions
TypeOK ==
    /\ storage \in [access_token : AccessTokens \cup {Null},
                    refresh_token : RefreshTokens \cup {Null}]
    /\ \A r \in Req :
          /\ req[r].pc \in {"idle", "inflight", "refreshing", "done", "aborted"}
          /\ req[r].caller \in Callers
          /\ req[r].retry \in BOOLEAN
          /\ result[r].kind \in {"pending", "resolved", "rejected"}
    /\ navPending \in BOOLEAN
    /\ isLoading \in BOOLEAN
    /\ initPc \in {"start", "waiting", "done"}

Init ==
    /\ storage \in InitialStorages
    /\ req = [r \in Req |-> IdleReq]
    /\ result = [r \in Req |-> Pending]
    /\ log = [r \in Req |-> <<>>]
    /\ navPending = FALSE
    /\ user = NoUser
    /\ isLoading = TRUE
    /\ initPc = "start"
    /\ OnboardingInit
    /\ PodcastsInit
    /\ ProfileInit

\* the mount effect of AuthProvider has started: effects of the first commit
\* run before any event handler or network answer of the page is handled
Mounted == initPc # "start"

\* request slots are taken in order
NextFree(r) == req[r].pc = "idle" /\ \A q \in Req : q < r => req[q].pc # "idle"

\* api.get / api.post called with storage st in place
ApiCall(r, st, url, caller) ==
    LET rq == [IdleReq EXCEPT !.url = url, !.caller = caller]
    IN  /\ req' = [req EXCEPT ![r] = Dispatch(st, rq)]
        /\ log' = [log EXCEPT ![r] = <<SendEv(st, rq)>>]
        /\ UNCHANGED <<onbVars, podVars, profVars>>

\* an interceptor callback ran for request r after event pre; when it settled
\* the promise the awaiting caller continues in the same turn
Apply(r, s, pre) ==
    LET caller == req[r].caller
        settled == s.outcome.kind # "pending"
    IN  /\ req' = [req EXCEPT ![r] = IF settled THEN DoneReq ELSE s.rq]
        /\ result' = [result EXCEPT ![r] = s.outcome]
        /\ log' = [log EXCEPT ![r] = IF settled THEN <<>> ELSE @ \o <<pre>> \o s.evs]
        /\ navPending' = (navPending \/ s.nav)
        /\ IF settled
           THEN /\ storage' = CallerStorage(caller, s.outcome, s.storage)
                /\ user' = CallerUser(caller, s.outcome, user)
                /\ isLoading' = CallerLoading(caller, isLoading)
                /\ initPc' = IF caller = "initAuth" THEN "done" ELSE initPc
           ELSE /\ storage' = s.storage
                /\ UNCHANGED <<user, isLoading, initPc>>
        /\ UNCHANGED <<onbVars, podVars, profVars>>

\* a view calls api.get / api.post
Issue(r, url) ==
    /\ Mounted
    /\ NextFree(r)
    /\ ApiCall(r, storage, url, "view")
    /\ UNCHANGED <<storage, result, navPending, user, isLoading, initPc>>

\* a view calls refreshUser()
RefreshUser(r) ==
    /\ Mounted
    /\ NextFree(r)
    /\ ApiCall(r, storage, MeUrl, "refreshUser")
    /\ UNCHANGED <<storage, result, navPending, user, isLoading, initPc>>

\* variant: the profile request is sent before the tokens are written
Login_SendFirst(r, pair) ==
    /\ Mounted
    /\ NextFree(r)
    /\ ApiCall(r, storage, MeUrl, "refreshUser")
    /\ storage' = SetCredentials(storage, pair)
    /\ UNCHANGED <<result, navPending, user, isLoading, initPc>>

\* login(data)
Login(r, pair) ==
    /\ Mounted
    /\ NextFree(r)
    /\ storage' = SetCredentials(storage, pair)
    /\ ApiCall(r, storage', MeUrl, "refreshUser")
    /\ UNCHANGED <<result, navPending, user, isLoading, initPc>>

\* logout()
Logout ==
    /\ Mounted
    /\ storage # NoCredentials \/ user # NoUser
    /\ storage' = RemoveCredentials(storage)
    /\ user' = NoUser
    /\ UNCHANGED <<req, result, log, navPending, isLoading, initPc, onbVars, podVars, profVars>>

\* the mount effect of AuthProvider, with a stored access token
InitAuthFetch(r) ==
    /\ initPc = "start"
    /\ Truthy(storage.access_token)
    /\ NextFree(r)
    /\ ApiCall(r, storage, MeUrl, "initAuth")
    /\ initPc' = "waiting"
    /\ UNCHANGED <<storage, result, navPending, user, isLoading>>

\* the mount effect of AuthProvider, without one
InitAuthReady ==
    /\ initPc = "start"
    /\ ~Truthy(storage.access_token)
    /\ isLoading' = FALSE
    /\ initPc' = "done"
    /\ UNCHANGED <<storage, req, result, log, navPending, user, onbVars, podVars, profVars>>

\* the backend answers a transmission of request r with 2xx
AnswerOk(r) ==
    /\ req[r].pc = "inflight"
    /\ Apply(r, OnFulfilled(storage, req[r], ApiResponse(Count(log[r], "send"))),
             [ev |-> "answer", status |-> "200"])

\* the backend answers a transmission of request r with an error status, or
\* the transport fails
AnswerError(r, status) ==
    /\ req[r].pc = "inflight"
    /\ status # "200"
    /\ Apply(r, OnRejected(storage, req[r], ApiError(Count(log[r], "send"), status)),
             [ev |-> "answer", status |-> status])

\* the refresh endpoint answers the refresh call made for request r
RefreshAnswer(r, out) ==
    /\ req[r].pc = "refreshing"
    /\ Apply(r, OnRefreshAnswer(storage, req[r], out),
             [ev |-> "refresh_answer", out |-> out])

\* the navigation started by window.location.href = "/auth" replaces the page:
\* requests still in flight are dropped and the application mounts again
PageUnload ==
    /\ navPending
    /\ navPending' = FALSE
    /\ req' = [r \in Req |->
                 IF req[r].pc \in {"inflight", "refreshing"}
                 THEN [IdleReq EXCEPT !.pc = "aborted"] ELSE req[r]]
    /\ log' = [r \in Req |-> <<>>]
    /\ user' = NoUser
    /\ isLoading' = TRUE
    /\ initPc' = "start"
    /\ UNCHANGED <<storage, result, onbVars, podVars, profVars>>

Next ==
    \/ \E r \in Req, url \in ViewUrls : Issue(r, url)
    \/ \E r \in Req : RefreshUser(r)
    \/ \E r \in Req, pair \in Pairs : Login(r, pair)
    \/ Logout
    \/ \E r \in Req : InitAuthFetch(r)
    \/ InitAuthReady
    \/ \E r \in Req : AnswerOk(r)
    \/ \E r \in Req, status \in Statuses : AnswerError(r, status)
    \/ \E r \in Req, out \in RefreshOutcomes : RefreshAnswer(r, out)
    \/ PageUnload

Spec == Init /\ [][Next]_vars

\* every call that reached the backend is answered or fails, unless the page
\* is replaced first
BackendAnswers(r) ==
    \/ AnswerOk(r)
    \/ \E status \in Statuses : AnswerError(r, status)
    \/ \E out \in RefreshOutcomes : RefreshAnswer(r, out)

\* the mount effect of a mounted AuthProvider runs
MountEffect == InitAuthReady \/ \E r \in Req : InitAuthFetch(r)

FairSpec ==
    /\ Spec
    /\ \A r \in Req : WF_vars(BackendAnswers(r))
    /\ WF_vars(MountEffect)

\* login(data) as the only session operation under way: no request is waiting
\* and no redirect is pending
LoginAlone(r, pair) ==
    /\ ~navPending
    /\ \A q \in Req : req[q].pc \notin {"inflight", "refreshing"}
    /\ Login(r, pair)

\* a session in which logins are the only operations after startup
LoginNext ==
    \/ \E r \in Req : InitAuthFetch(r)
    \/ InitAuthReady
    \/ \E r \in Req, pair \in Pairs : LoginAlone(r, pair)
    \/ \E r \in Req : AnswerOk(r)
    \/ \E r \in Req, status \in Statuses : AnswerError(r, status)
    \/ \E r \in Req, out \in RefreshOutcomes : RefreshAnswer(r, out)
    \/ PageUnload

LoginSpec ==
    /\ Init /\ [][LoginNext]_vars
    /\ \A r \in Req : WF_vars(BackendAnswers(r))
    /\ WF_vars(MountEffect)

\* ---------------------------------------------------------------- Onboarding actions
\* The network side of the wizard (GET /topics/, POST /users/onboarding,
\* refreshUser) goes through the client modelled above; the wizard only sees
\* whether the awaited call succeeded.

\* fetchTopics: the list arrives
TopicsLoaded(n) ==
    /\ wizard = "open" /\ topicsFetch = "pending"
    /\ topics' = TopicList(n)
    /\ topicsFetch' = "done"
    /\ UNCHANGED <<wizard, step, selectedPlan, selectedTopics, isSubmitting, formData>>
    /\ UNCHANGED <<apiVars, podVars, profVars>>

\* fetchTopics: the call fails (or the list is empty), topics stays empty
TopicsFailed ==
    /\ wizard = "open" /\ topicsFetch = "pending"
    /\ topicsFetch' = "done"
    /\ UNCHANGED <<wizard, step, selectedPlan, selectedTopics, topics, isSubmitting,
                   formData>>
    /\ UNCHANGED <<apiVars, podVars, profVars>>

\* a click on a plan card (step 1)
SelectPlan(plan) ==
    /\ wizard = "open" /\ step = 1
    /\ selectedPlan' = plan
    /\ UNCHANGED <<wizard, step, selectedTopics, topics, topicsFetch, isSubmitting,
                   formData>>
    /\ UNCHANGED <<apiVars, podVars, profVars>>

\* a click on an enabled topic button (step 2)
ToggleTopic(topicId) ==
    /\ wizard = "open" /\ step = 2
    /\ Includes(topics, topicId)
    /\ ~isDisabled(selectedTopics, topicId, selectedPlan, topics)
    /\ selectedTopics' = toggleTopic(selectedTopics, topicId, selectedPlan, topics)
    /\ UNCHANGED <<wizard, step, selectedPlan, topics, topicsFetch, isSubmitting,
                   formData>>
    /\ UNCHANGED <<apiVars, podVars, profVars>>

\* the Back button
Back ==
    /\ wizard = "open" /\ step > 1
    /\ step' = step - 1
    /\ UNCHANGED <<wizard, selectedPlan, selectedTopics, topics, topicsFetch,
                   isSubmitting, formData>>
    /\ UNCHANGED <<apiVars, podVars, profVars>>

\* variant: Continue is enabled at step 2 whatever is selected
Continue_Unguarded ==
    /\ wizard = "open" /\ step < LastStep
    /\ step' = step + 1
    /\ UNCHANGED <<wizard, selectedPlan, selectedTopics, topics, topicsFetch,
                   isSubmitting, formData>>
    /\ UNCHANGED <<apiVars, podVars, profVars>>

\* the Continue button
Continue ==
    /\ wizard = "open" /\ step < LastStep
    /\ ~(step = 2 /\ Cardinality(selectedTopics) = 0)
    /\ step' = step + 1
    /\ UNCHANGED <<wizard, selectedPlan, selectedTopics, topics, topicsFetch,
                   isSubmitting, formData>>
    /\ UNCHANGED <<apiVars, podVars, profVars>>

\* handleComplete up to the awaited POST
HandleComplete ==
    /\ wizard = "open" /\ step = LastStep /\ ~isSubmitting
    /\ isSubmitting' = TRUE
    /\ formData' = [plan_type |-> selectedPlan, topic_ids |-> selectedTopics]
    /\ UNCHANGED <<wizard, step, selectedPlan, selectedTopics, topics, topicsFetch>>
    /\ UNCHANGED <<apiVars, podVars, profVars>>

\* handleComplete after the await: on success the wizard is left for the
\* dashboard, on failure it stays where it is; the form was local to the call
CompleteSettled(ok) ==
    /\ wizard = "open" /\ isSubmitting
    /\ isSubmitting' = FALSE
    /\ formData' = NoForm
    /\ wizard' = IF ok THEN "left" ELSE "open"
    /\ UNCHANGED <<step, selectedPlan, selectedTopics, topics, topicsFetch>>
    /\ UNCHANGED <<apiVars, podVars, profVars>>

OnboardingNext ==
    \/ \E n \in 1..MaxTopics : TopicsLoaded(n)
    \/ TopicsFailed
    \/ \E plan \in Plans : SelectPlan(plan)
    \/ \E topicId \in 1..MaxTopics : ToggleTopic(topicId)
    \/ Back
    \/ Continue
    \/ HandleComplete
    \/ \E ok \in BOOLEAN : CompleteSettled(ok)

OnboardingSpec == Init /\ [][OnboardingNext]_vars

\* ---------------------------------------------------------------- Podcasts actions
\* One action is one turn of the page: an event handler or the continuation
\* of an awaited call, the render it causes and the effects of that render.

RemoveAt(s, i) == SubSeq(s, 1, i - 1) \o SubSeq(s, i + 1, Len(s))

\* what the functions of the render after this turn see
NextClosure == Closure(page', debouncedSearch', pageSize', currentPodcast')

\* the polling effect, re-run when podcasts or page changed
RunPollingEffect(listSet) ==
    poll' = IF listSet \/ page' # page
            THEN PollingEffect(podcasts', NextClosure)
            ELSE poll

\* the audio effect, re-run when currentPodcast or isPlaying changed
RunAudioEffect ==
    IF <<currentPodcast', isPlaying'>> # <<currentPodcast, isPlaying>>
    THEN /\ audioSrc' = AudioSrcAfter(currentPodcast', audioSrc)
         /\ audioPaused' = AudioPausedAfter(currentPodcast', isPlaying', audioPaused)
    ELSE UNCHANGED <<audioSrc, audioPaused>>

\* fetchPodcasts(pageNum, append, silent) called by a function with closure c
StartFetch(pageNum, append, silent, c) ==
    /\ Len(fetches) < MaxFetch
    /\ fetches' = Append(fetches, FetchCall(pageNum, append, silent, c))
    /\ listLoading' = IF ~silent /\ ~append THEN TRUE ELSE listLoading
    /\ isLoadingMore' = IF ~silent /\ append THEN TRUE ELSE isLoadingMore

\* GET /podcasts/ answers: fetchPodcasts continues after its await
FetchAnswered(i) ==
    /\ i \in 1..Len(fetches)
    /\ LET f == fetches[i]
           items == newPodcasts(f, library)
       IN  /\ podcasts' = PodcastsAfter(podcasts, f, items)
           /\ currentPodcast' = CurrentAfter(currentPodcast, f, items)
           /\ total' = totalCount(f, library)
           /\ page' = f.pageNum
           /\ hasMore' = (f.pageNum * f.per_page < totalCount(f, library))
    /\ listLoading' = FALSE
    /\ isLoadingMore' = FALSE
    /\ fetches' = RemoveAt(fetches, i)
    /\ UNCHANGED <<library, pageSize, debouncedSearch, isPlaying>>
    /\ RunPollingEffect(TRUE)
    /\ RunAudioEffect
    /\ UNCHANGED <<apiVars, onbVars, profVars>>

\* GET /podcasts/ fails: the catch logs, the finally clears the flags
FetchFailed(i) ==
    /\ i \in 1..Len(fetches)
    /\ listLoading' = FALSE
    /\ isLoadingMore' = FALSE
    /\ fetches' = RemoveAt(fetches, i)
    /\ UNCHANGED <<library, podcasts, page, total, hasMore, pageSize, debouncedSearch,
                   poll, currentPodcast, isPlaying, audioSrc, audioPaused>>
    /\ UNCHANGED <<apiVars, onbVars, profVars>>

\* the filter effect: setPage(1); fetchPodcasts(1, false)
FilterEffect ==
    /\ page' = 1
    /\ UNCHANGED <<library, podcasts, total, hasMore, currentPodcast, isPlaying,
                   audioSrc, audioPaused>>
    /\ StartFetch(1, FALSE, FALSE, NextClosure)
    /\ RunPollingEffect(FALSE)
    /\ UNCHANGED <<apiVars, onbVars, profVars>>

\* the debounce timer fires with a new search text
SearchDebounced(q) ==
    /\ q # debouncedSearch
    /\ debouncedSearch' = q
    /\ UNCHANGED pageSize
    /\ FilterEffect

\* PageSizeSelector onChange={setPageSize}, shown while total > 0
SelectPageSize(n) ==
    /\ total > 0
    /\ n # pageSize
    /\ pageSize' = n
    /\ UNCHANGED debouncedSearch
    /\ FilterEffect

\* the interval fires: fetchPodcasts(page, false, true) of the closure
PollTick ==
    /\ poll # NoPoll
    /\ StartFetch(poll.page, FALSE, TRUE, poll)
    /\ UNCHANGED <<library, podcasts, page, total, hasMore, pageSize, debouncedSearch,
                   poll, currentPodcast, isPlaying, audioSrc, audioPaused>>
    /\ UNCHANGED <<apiVars, onbVars, profVars>>

\* handleLoadMore: the button is shown while hasMore, disabled while
\* isLoadingMore
handleLoadMore ==
    /\ hasMore /\ ~isLoadingMore
    /\ StartFetch(page + 1, TRUE, FALSE,
                  Closure(page, debouncedSearch, pageSize, currentPodcast))
    /\ UNCHANGED <<library, podcasts, page, total, hasMore, pageSize, debouncedSearch,
                   poll, currentPodcast, isPlaying, audioSrc, audioPaused>>
    /\ UNCHANGED <<apiVars, onbVars, profVars>>

\* the Refresh button: fetchPodcasts(1, false), disabled while isLoading
RefreshClick ==
    /\ ~listLoading
    /\ StartFetch(1, FALSE, FALSE,
                  Closure(page, debouncedSearch, pageSize, currentPodcast))
    /\ UNCHANGED <<library, podcasts, page, total, hasMore, pageSize, debouncedSearch,
                   poll, currentPodcast, isPlaying, audioSrc, audioPaused>>
    /\ UNCHANGED <<apiVars, onbVars, profVars>>

\* handleCreatePodcast: POST /podcasts/quick-generate answers (the backend has
\* queued a new podcast), then fetchPodcasts()
handleCreatePodcast ==
    /\ \E id \in PodcastIds :
          /\ library[id] = "absent"
          /\ \A j \in PodcastIds : j < id => library[j] # "absent"
          /\ library' = [library EXCEPT ![id] = "pending"]
    /\ StartFetch(1, FALSE, FALSE,
                  Closure(page, debouncedSearch, pageSize, currentPodcast))
    /\ UNCHANGED <<podcasts, page, total, hasMore, pageSize, debouncedSearch,
                   poll, currentPodcast, isPlaying, audioSrc, audioPaused>>
    /\ UNCHANGED <<apiVars, onbVars, profVars>>

\* backend: the worker advances a podcast
PodcastProgress(id, st) ==
    /\ \/ library[id] = "pending" /\ st = "processing"
       \/ library[id] = "processing" /\ st \in {"completed", "failed"}
    /\ library' = [library EXCEPT ![id] = st]
    /\ UNCHANGED <<podcasts, page, total, hasMore, pageSize, debouncedSearch,
                   listLoading, isLoadingMore, fetches, poll, currentPodcast,
                   isPlaying, audioSrc, audioPaused>>
    /\ UNCHANGED <<apiVars, onbVars, profVars>>

\* the player part of a turn: currentPodcast and isPlaying are set, the list
\* part of the page is left alone.  The play and pause events that the
\* effect's play() and pause() fire set isPlaying to the value it already has.
PlayerTurn(cur, playing) ==
    /\ currentPodcast' = cur
    /\ isPlaying' = playing
    /\ RunAudioEffect
    /\ UNCHANGED <<library, podcasts, page, total, hasMore, pageSize, debouncedSearch,
                   listLoading, isLoadingMore, fetches, poll>>
    /\ UNCHANGED <<apiVars, onbVars, profVars>>

\* a click on card k: setCurrentPodcast(podcast)
CardClick(k) ==
    /\ k \in 1..Len(podcasts)
    /\ PlayerTurn(podcasts[k], isPlaying)

\* handlePlayPause(podcast)
handlePlayPause(podcast) ==
    IF currentPodcast.id = podcast.id
    THEN PlayerTurn(currentPodcast, ~isPlaying)
    ELSE PlayerTurn(podcast, TRUE)

\* a click on the play button of card k, disabled unless completed
CardPlay(k) ==
    /\ k \in 1..Len(podcasts)
    /\ podcasts[k].status = "completed"
    /\ handlePlayPause(podcasts[k])

\* the play/pause button of the player, disabled unless completed
PlayerToggle ==
    /\ currentPodcast # NoPodcast
    /\ currentPodcast.status = "completed"
    /\ PlayerTurn(currentPodcast, ~isPlaying)

\* <audio onEnded> / <audio onPause>: playback stopped, setIsPlaying(false)
AudioEnded ==
    /\ ~audioPaused
    /\ currentPodcast' = currentPodcast
    /\ isPlaying' = FALSE
    /\ IF isPlaying
       THEN /\ audioSrc' = AudioSrcAfter(currentPodcast, audioSrc)
            /\ audioPaused' = TRUE
       ELSE /\ audioSrc' = audioSrc
            /\ audioPaused' = TRUE
    /\ UNCHANGED <<library, podcasts, page, total, hasMore, pageSize, debouncedSearch,
                   listLoading, isLoadingMore, fetches, poll>>
    /\ UNCHANGED <<apiVars, onbVars, profVars>>

\* play() rejects: .catch(() => setIsPlaying(false))
PlayRejected ==
    /\ isPlaying /\ ~audioPaused
    /\ currentPodcast' = currentPodcast
    /\ isPlaying' = FALSE
    /\ audioSrc' = AudioSrcAfter(currentPodcast, audioSrc)
    /\ audioPaused' = TRUE
    /\ UNCHANGED <<library, podcasts, page, total, hasMore, pageSize, debouncedSearch,
                   listLoading, isLoadingMore, fetches, poll>>
    /\ UNCHANGED <<apiVars, onbVars, profVars>>

\* the list of the page: fetches, filters, Load More, polling
PodcastsNext ==
    \/ \E i \in 1..MaxFetch : FetchAnswered(i) \/ FetchFailed(i)
    \/ \E q \in Searches : SearchDebounced(q)
    \/ \E n \in PageSizes : SelectPageSize(n)
    \/ PollTick
    \/ handleLoadMore
    \/ RefreshClick
    \/ handleCreatePodcast
    \/ \E id \in PodcastIds, st \in PodcastStatuses : PodcastProgress(id, st)

\* the pages behind the login are rendered with a session in storage
PageInit == Init /\ Truthy(storage.access_token)

PodcastsSpec == PageInit /\ [][PodcastsNext]_vars

\* the player of the page over a list that is created and refreshed
PlayerNext ==
    \/ \E i \in 1..MaxFetch : FetchAnswered(i) \/ FetchFailed(i)
    \/ RefreshClick
    \/ handleCreatePodcast
    \/ \E id \in PodcastIds, st \in PodcastStatuses : PodcastProgress(id, st)
    \/ \E k \in 1..MaxPodcasts : CardClick(k) \/ CardPlay(k)
    \/ PlayerToggle
    \/ AudioEnded
    \/ PlayRejected

PlayerSpec == PageInit /\ [][PlayerNext]_vars

\* ---------------------------------------------------------------- Profile actions
\* fetchData: both lists arrive; the answer shows which topics the backend
\* holds for the user (a free plan holds at most ProfileFreeLimit)
ProfileLoaded(sel, plan) ==
    /\ profileLoading
    /\ plan = "free" => Cardinality(sel) <= ProfileFreeLimit
    /\ userTopics' = sel
    /\ allTopics' = ProfileTopicIds
    /\ profileTopics' = sel
    /\ profilePlan' = plan
    /\ profileLoading' = FALSE
    /\ UNCHANGED toggles
    /\ UNCHANGED <<apiVars, onbVars, podVars>>

\* fetchData: a call fails, both arrays stay empty
ProfileLoadFailed ==
    /\ profileLoading
    /\ profileLoading' = FALSE
    /\ UNCHANGED <<userTopics, allTopics, profileTopics, profilePlan, toggles>>
    /\ UNCHANGED <<apiVars, onbVars, podVars>>

\* handleToggleTopic(topic) up to its await: the snapshot, the optimistic
\* update and the request; over the free limit it returns before both
handleToggleTopic(topic) ==
    /\ topic \in allTopics
    /\ Len(toggles) < MaxToggles
    /\ ~( /\ ~isSelected(profileTopics, topic)
          /\ Cardinality(profileTopics) >= ProfileFreeLimit
          /\ profilePlan = "free" )
    /\ profileTopics' = OptimisticTopics(profileTopics, topic)
    /\ toggles' = Append(toggles,
                         [topic |-> topic,
                          isSelected |-> isSelected(profileTopics, topic),
                          originalTopics |-> profileTopics])
    /\ UNCHANGED <<userTopics, allTopics, profileLoading, profilePlan>>
    /\ UNCHANGED <<apiVars, onbVars, podVars>>

\* the backend accepts the DELETE or POST: the handler ends
ToggleAccepted(i) ==
    /\ i \in 1..Len(toggles)
    /\ userTopics' = AcceptedTopics(userTopics, toggles[i])
    /\ toggles' = RemoveAt(toggles, i)
    /\ UNCHANGED <<allTopics, profileTopics, profileLoading, profilePlan>>
    /\ UNCHANGED <<apiVars, onbVars, podVars>>

\* the call fails: the catch runs setSelectedTopics(originalTopics)
ToggleRejected(i) ==
    /\ i \in 1..Len(toggles)
    /\ profileTopics' = toggles[i].originalTopics
    /\ toggles' = RemoveAt(toggles, i)
    /\ UNCHANGED <<userTopics, allTopics, profileLoading, profilePlan>>
    /\ UNCHANGED <<apiVars, onbVars, podVars>>

ProfileNext ==
    \/ \E sel \in SUBSET ProfileTopicIds, plan \in Plans : ProfileLoaded(sel, plan)
    \/ ProfileLoadFailed
    \/ \E topic \in ProfileTopicIds : handleToggleTopic(topic)
    \/ \E i \in 1..MaxToggles : ToggleAccepted(i) \/ ToggleRejected(i)

ProfileSpec == PageInit /\ [][ProfileNext]_vars

\* ---------------------------------------------------------------- properties
\* the events of a log, by name
Evs(s) == [i \in 1..Len(s) |-> s[i].ev]

\* number of transmissions made so far for the request in slot r
Sends(r) == Count(log[r], "send")

\* what the log of a request in progress may hold
C1_Counts ==
    \A r \in Req :
        /\ Count(log[r], "refresh_call") <= 1
        /\ Sends(r) <= 2
        /\ Has(log[r], "refresh_call") => req[r].retry

\* a 401 answered to a marked request ends it
C1_SecondUnauthorized ==
    \A r \in Req :
        (req[r].retry /\ AnswerError(r, "401")) =>
            /\ result'[r] = Rejected(ApiError(2, "401"))
            /\ req'[r].pc = "done"

\* a first 401 that does not end the request marks it and starts one refresh
C1_FirstUnauthorized ==
    \A r \in Req :
        (~req[r].retry /\ req'[r].pc # "done" /\ AnswerError(r, "401")) =>
            /\ req'[r].retry
            /\ req'[r].pc = "refreshing"
            /\ Sends(r) = 1

\* C1: on behalf of one request at most one refresh call and at most one
\* resend are made; the first 401 sets the retry marker; a 401 answered to the
\* resend is rejected to the caller and starts no refresh call and no resend.
C1_SingleRetry ==
    /\ []C1_Counts
    /\ [][C1_SecondUnauthorized /\ C1_FirstUnauthorized]_vars

\* a resend was answered 401 and the caller got that error
C1_Witness ==
    \E r \in Req : result[r] = Rejected(ApiError(2, "401"))

\* C2: a first 401 with no refresh token stored removes both keys, triggers
\* the redirect, makes no refresh call and no resend, and rejects with the
\* original 401 error, whatever the path, the caller and the header sent.
C2_NoRefreshToken ==
    [][\A r \in Req :
          (~req[r].retry /\ ~Truthy(storage.refresh_token) /\ AnswerError(r, "401")) =>
              /\ storage' = NoCredentials
              /\ navPending'
              /\ req'[r].pc = "done"
              /\ result'[r] = Rejected(ApiError(1, "401"))]_vars

\* the original 401 was handed to the caller, storage is empty and the
\* redirect is under way
C2_Witness ==
    \E r \in Req :
        /\ result[r] = Rejected(ApiError(1, "401"))
        /\ storage = NoCredentials
        /\ navPending

\* C3: a failed refresh call (error status or transport failure) removes both
\* keys, triggers the redirect, issues no resend, and rejects with the refresh
\* call's error, not with the original 401 error.
C3_RefreshFailure ==
    [][\A r \in Req : \A s \in {"401", "500", "network"} :
          RefreshAnswer(r, [kind |-> "error", status |-> s]) =>
              /\ storage' = NoCredentials
              /\ navPending'
              /\ req'[r].pc = "done"
              /\ result'[r] = Rejected([call |-> "refresh", n |-> 1, status |-> s])
              /\ result'[r].value # ApiError(1, "401")]_vars

\* a caller holds the error of a refresh call answered 401
C3_Witness ==
    \E r \in Req :
        /\ result[r] = Rejected([call |-> "refresh", n |-> 1, status |-> "401"])
        /\ storage = NoCredentials
        /\ navPending

\* the pair persisted by the refresh made for the request in slot r
PersistedPair(r) == log[r][Last(log[r], "persist")].pair

\* C4: when the refresh made for a first 401 succeeds with a pair, both storage
\* keys hold that pair right after it is handled, a request issued next reads
\* its access token, and the caller receives exactly the outcome of the single
\* resend, never the original 401.
C4_RefreshSuccess ==
    [][\A r \in Req :
          /\ \A pair \in Pairs :
                RefreshAnswer(r, [kind |-> "ok", pair |-> pair]) =>
                    /\ storage'.access_token = pair.access_token
                    /\ storage'.refresh_token = pair.refresh_token
                    /\ RequestInterceptor(storage', NoAuth) =
                         (IF pair.access_token = "" THEN NoAuth
                          ELSE Bearer(pair.access_token))
                    /\ req'[r].pc = "inflight"
                    /\ Sends(r)' = 2
                    /\ result'[r] = Pending
          /\ (req[r].retry /\ AnswerOk(r)) =>
                    /\ Has(log[r], "persist")
                    /\ result'[r] = Resolved(ApiResponse(2))
          /\ \A s \in Statuses \ {"200"} :
                (req[r].retry /\ AnswerError(r, s)) =>
                    /\ Has(log[r], "persist")
                    /\ result'[r] = Rejected(ApiError(2, s))]_vars

\* the caller got the 200 of the resend and storage holds the refreshed pair
C4_Witness ==
    \E r \in Req :
        /\ result[r] = Resolved(ApiResponse(2))
        /\ storage = [access_token |-> "a2", refresh_token |-> "r2"]

\* C5: while the resend of a request is in flight, under every interleaving
\* with other requests, logins and logouts, it carries Authorization: Bearer
\* <access token returned by the request's own refresh call>.
C5_ResendHeader ==
    \A r \in Req :
        (req[r].pc = "inflight" /\ req[r].retry) =>
            /\ Has(log[r], "persist")
            /\ req[r].auth = Bearer(PersistedPair(r).access_token)

\* a resend is in flight while storage no longer holds the pair of its refresh
C5_Witness ==
    \E r \in Req :
        /\ req[r].pc = "inflight"
        /\ req[r].retry
        /\ storage.access_token # PersistedPair(r).access_token

\* C6: a first answer that is a success is passed through: the caller gets that
\* response, and handling it makes no refresh call, no resend, no write to
\* either storage key and no redirect.
C6_PassThrough ==
    [][\A r \in Req :
          (~req[r].retry /\ AnswerOk(r)) =>
              /\ result'[r] = Resolved(ApiResponse(1))
              /\ req'[r].pc = "done"
              /\ storage' = storage
              /\ navPending' = navPending]_vars

\* a caller holds the response of a first transmission
C6_Witness ==
    \E r \in Req : result[r] = Resolved(ApiResponse(1))

\* the failures that are not a first 401
NotFirst401(r, s) == s \in {"500", "network"} \/ (s = "401" /\ req[r].retry)

\* C7: a failure that is not a first 401 (another error status, a transport
\* error, a 401 on a marked request) is rejected with the same error object;
\* the client makes no refresh call, no resend, no storage change and no
\* redirect (storage changes only by the logout of a refreshUser caller).
C7_Propagate ==
    [][\A r \in Req : \A s \in Statuses \ {"200"} :
          (NotFirst401(r, s) /\ AnswerError(r, s)) =>
              /\ result'[r] = Rejected(ApiError(Sends(r), s))
              /\ req'[r].pc = "done"
              /\ navPending' = navPending
              /\ req[r].caller = "view" => storage' = storage
              /\ req[r].caller # "view" => storage' = NoCredentials]_vars

\* a view got a transport error while the stored pair stayed in place
C7_Witness ==
    \E r \in Req :
        /\ result[r] = Rejected(ApiError(1, "network"))
        /\ storage = [access_token |-> "a1", refresh_token |-> "r1"]
        /\ ~navPending

\* the statement of section 7 for a 401 answered to a resend: rejected, storage
\* cleared and redirect triggered
C8_ClearedAndRedirected ==
    [][\A r \in Req :
          (req[r].retry /\ AnswerError(r, "401")) =>
              /\ result'[r].kind = "rejected"
              /\ storage' = NoCredentials
              /\ navPending']_vars

\* C8 (amended): a 401 answered to the resend is rejected to the caller with
\* that error; the client triggers no redirect and changes no storage key, so
\* for a view the refreshed pair stays stored; storage is cleared only by the
\* logout of a refreshUser caller.
C8_SurfacedOnly ==
    [][\A r \in Req :
          (req[r].retry /\ AnswerError(r, "401")) =>
              /\ result'[r] = Rejected(ApiError(2, "401"))
              /\ navPending' = navPending
              /\ req[r].caller = "view" =>
                    (storage' = storage /\ user' = user)
              /\ req[r].caller # "view" =>
                    (storage' = NoCredentials /\ user' = NoUser)]_vars

\* the resend was answered 401, the refreshed pair is still stored and no
\* redirect is under way
C8_Witness ==
    \E r \in Req :
        /\ result[r] = Rejected(ApiError(2, "401"))
        /\ storage = [access_token |-> "a2", refresh_token |-> "r2"]
        /\ ~navPending

\* C9: every transmission (first send and resend) reads the access token from
\* storage at send time: with a non-empty token stored it carries Bearer <that
\* value>, whoever wrote it; with none stored the interceptor leaves the
\* header as it found it (absent on a first send, the refreshed one on a resend).
C9_FreshRead ==
    [][\A r \in Req :
          (Sends(r)' = Sends(r) + 1) =>
              /\ req'[r].pc = "inflight"
              /\ req'[r].auth =
                    (IF Truthy(storage'.access_token)
                     THEN Bearer(storage'.access_token)
                     ELSE IF Sends(r) = 0 THEN NoAuth
                     ELSE Bearer(PersistedPair(r)'.access_token))]_vars

\* a view's first send carries the token another request's refresh stored
C9_Witness ==
    \E r, q \in Req :
        /\ r # q
        /\ req[r].pc = "inflight" /\ ~req[r].retry /\ req[r].caller = "view"
        /\ req[r].auth = Bearer("a2")
        /\ Has(log[q], "persist") /\ PersistedPair(q).access_token = "a2"

\* the event sequences of a request in progress
LifecycleShapes ==
    { <<>>,
      <<"send">>,
      <<"send", "answer", "refresh_call">>,
      <<"send", "answer", "refresh_call", "refresh_answer", "persist", "send">> }

\* C10: within one request's lifecycle the events are strictly ordered:
\* original send, 401, refresh call issued, refresh call completed, resend;
\* the resend follows a refresh answer that was received with a pair and
\* persisted, and no request is in progress after a refresh that failed.
C10_Ordering ==
    \A r \in Req :
        /\ Evs(log[r]) \in LifecycleShapes
        /\ Len(log[r]) >= 2 => log[r][2].status = "401"
        /\ Len(log[r]) >= 3 => log[r][3].token = req[r].refreshBody
        /\ Len(log[r]) >= 4 =>
              /\ log[r][4].out.kind = "ok"
              /\ log[r][5].pair = log[r][4].out.pair
        /\ req[r].pc = "refreshing" <=> Len(log[r]) = 3
        /\ req[r].pc = "inflight" <=> Len(log[r]) \in {1, 6}

\* a resend is in flight after the whole sequence
C10_Witness ==
    \E r \in Req : Len(log[r]) = 6 /\ req[r].pc = "inflight"

\* ---------------------------------------------------------------- C11
\* C11: refresh attempts are not deduplicated: every first 401 handled while a
\* refresh token is stored starts a refresh call of its own, whose body is the
\* refresh token stored at that moment, whether or not a sibling request is
\* refreshing or has already persisted a newer pair; storage is not touched
C11_OwnRefresh ==
    [][\A r \in Req :
          (~req[r].retry /\ Truthy(storage.refresh_token) /\ AnswerError(r, "401"))
          => /\ req'[r].pc = "refreshing"
             /\ req'[r].refreshBody = storage.refresh_token
             /\ log'[r][Len(log'[r])] =
                    [ev |-> "refresh_call", token |-> storage.refresh_token,
                     auth |-> NoAuth]
             /\ Count(log'[r], "refresh_call") = 1
             /\ storage' = storage
             /\ \A q \in Req \ {r} : req'[q] = req[q] /\ log'[q] = log[q]]_vars

\* a request sent with the access token of the last page load makes its own
\* refresh call with the refresh token a sibling's refresh has already persisted
C11_Witness ==
    \E r, q \in Req :
        /\ r # q
        /\ Has(log[q], "persist") /\ req[q].refreshBody = "r1"
        /\ req[r].pc = "refreshing"
        /\ log[r][1].auth = Bearer("a1") /\ req[r].refreshBody = "r2"

\* ---------------------------------------------------------------- C12
\* both keys always hold the two halves of one body (or both are absent)
C12_SamePair == storage \in InitialStorages \cup Pairs

\* C12: concurrent successful refreshes: each handled refresh response
\* overwrites the stored pair with its own, whatever a sibling's refresh wrote
\* before, so the pair stored at the end is that of the response handled last;
\* in every state the stored access and refresh token come from one body
C12_LastWriteWins ==
    /\ []C12_SamePair
    /\ [][\A r \in Req : \A p \in Pairs :
            (req[r].refreshBody # Null /\ RefreshAnswer(r, [kind |-> "ok", pair |-> p]))
            => /\ storage' = p
               /\ PersistedPair(r)' = p]_vars

\* two refreshes made with the same refresh token both succeeded with different
\* pairs; both resends are in flight and storage holds one of the two pairs whole
C12_Witness ==
    \E r, q \in Req :
        /\ r # q
        /\ Has(log[r], "persist") /\ Has(log[q], "persist")
        /\ req[r].refreshBody = req[q].refreshBody
        /\ PersistedPair(r) # PersistedPair(q)
        /\ storage = PersistedPair(r)

\* ---------------------------------------------------------------- C13
\* the two steps of the client that assign window.location.href: the first 401
\* of request r handled with no refresh token stored, and the failed refresh
\* call of request r
RedirectStep(r) ==
    \/ ~req[r].retry /\ ~Truthy(storage.refresh_token) /\ AnswerError(r, "401")
    \/ \E out \in RefreshOutcomes :
          out.kind # "ok" /\ req[r].refreshBody # Null /\ RefreshAnswer(r, out)

\* C13: the redirect to /auth becomes pending only in a step that handles a
\* first 401 without a stored refresh token or a failed refresh call, and every
\* such step ends with the redirect pending and both storage keys absent
C13_RedirectOnlyAfterClear ==
    [][/\ (navPending' /\ ~navPending) => \E r \in Req : RedirectStep(r)
       /\ \A r \in Req :
             RedirectStep(r) => navPending' /\ storage' = NoCredentials]_vars

\* a redirect is pending, both keys are absent, and the request that caused it
\* was rejected with a first 401 or with the error of its refresh call
C13_Witness ==
    /\ navPending
    /\ storage = NoCredentials
    /\ \E r \in Req :
          \/ result[r] = Rejected(ApiError(1, "401"))
          \/ result[r].kind = "rejected" /\ result[r].value.call = "refresh"

\* ---------------------------------------------------------------- C14
InProgress(r) == req[r].pc \in {"inflight", "refreshing"}

\* a slot is done exactly when its promise has been resolved or rejected
C14_SettledOnce ==
    \A r \in Req : req[r].pc = "done" <=> result[r].kind \in {"resolved", "rejected"}

\* the promise of request r resolves in the step that handles a success
\* response of one of its transmissions, with that response, and in no other
C14_ResolveOnlyOnSuccess ==
    \A r \in Req :
        /\ (InProgress(r) /\ result'[r].kind = "resolved")
           => AnswerOk(r) /\ result'[r] = Resolved(ApiResponse(Sends(r)))
        /\ (InProgress(r) /\ AnswerOk(r)) => result'[r].kind = "resolved"
        /\ result[r] # Pending => result'[r] = result[r]

\* C14: no error is swallowed: when every backend call is answered, every
\* request issued through the client settles (unless the page it belongs to
\* is replaced first); it resolves only in a step where one of its
\* transmissions was answered with success, and is rejected otherwise.
\* A slot carries one request, so "every request settles" is: from some point
\* on no slot is waiting for an answer
C14_NoErrorSwallowed ==
    /\ []C14_SettledOnce
    /\ [][C14_ResolveOnlyOnSuccess]_vars
    /\ <>[](\A r \in Req : ~InProgress(r))

\* one request was resolved by its resend and another rejected by a failure of
\* its refresh call
C14_Witness ==
    \E r, q \in Req :
        /\ result[r] = Resolved(ApiResponse(2))
        /\ result[q].kind = "rejected" /\ result[q].value.call = "refresh"

\* ---------------------------------------------------------------- C15
\* the header the request interceptor produces for a stored access token
HeaderFor(tok) == IF Truthy(tok) THEN Bearer(tok) ELSE NoAuth

\* C15: login(pair) has written both tokens when its /users/me request is sent,
\* so the request carries the access token of the pair (no header when that
\* token is the empty string); login itself publishes no user, and a profile
\* is published only in the step that handles a success response of a
\* /users/me request, from that response
C15_LoginOrder ==
    [][/\ \A r \in Req : \A pair \in Pairs :
             Login(r, pair)
             => /\ storage' = [access_token |-> pair.access_token,
                               refresh_token |-> pair.refresh_token]
                /\ req'[r].url = MeUrl
                /\ req'[r].pc = "inflight"
                /\ log'[r] = <<[ev |-> "send", auth |-> HeaderFor(pair.access_token)]>>
                /\ user' = user
       /\ (user' # user /\ user'.kind = "user")
          => \E r \in Req :
                /\ req[r].url = MeUrl
                /\ AnswerOk(r)
                /\ user' = Profile(ApiResponse(Sends(r)))]_vars

\* the profile request of a login is in flight with the access token of the
\* pair just stored, and no user is published yet
C15_Witness ==
    \E r \in Req :
        /\ req[r].caller = "refreshUser" /\ req[r].pc = "inflight"
        /\ log[r] = <<[ev |-> "send", auth |-> Bearer("a2")]>>
        /\ storage = [access_token |-> "a2", refresh_token |-> "r2"]
        /\ user = NoUser

\* ---------------------------------------------------------------- C16
\* C16: refreshUser never rejects: in the step that settles its /users/me
\* request, a failure of any kind ends with both storage keys absent and no
\* user published (logout), a success publishes the profile of the response
\* and leaves storage as it was; either way the caller goes on (the mount
\* effect that awaited it clears the loading flag)
C16_RefreshUserOutcome ==
    [][\A r \in Req :
          (req[r].caller \in {"refreshUser", "initAuth"} /\ InProgress(r)
             /\ req'[r].pc = "done")
          => /\ IF result'[r].kind = "resolved"
                THEN /\ user' = Profile(result'[r].value)
                     /\ storage' = storage
                ELSE /\ result'[r].kind = "rejected"
                     /\ storage' = NoCredentials
                     /\ user' = NoUser
             /\ req[r].caller = "initAuth" => ~isLoading' /\ initPc' = "done"
             /\ req[r].caller = "refreshUser" =>
                   isLoading' = isLoading /\ initPc' = initPc]_vars

\* the only request of the page failed with a server error without any
\* redirect; the mount effect has finished, the keys are absent and no user is
\* published
C16_Witness ==
    /\ result[1] = Rejected(ApiError(1, "500"))
    /\ \A q \in Req \ {1} : req[q].pc = "idle"
    /\ storage = NoCredentials /\ user = NoUser
    /\ ~navPending /\ ~isLoading /\ initPc = "done"

\* ---------------------------------------------------------------- C17
\* the /users/me requests of the mount effect that are still pending
InitAuthPending == { r \in Req : req[r].caller = "initAuth" /\ InProgress(r) }

\* the flag and the user at each position of the mount effect
C17_Positions ==
    /\ initPc = "start" =>
          isLoading /\ user = NoUser /\ \A r \in Req : ~InProgress(r)
    /\ initPc = "waiting" => isLoading /\ Cardinality(InitAuthPending) = 1
    /\ initPc = "done" => ~isLoading /\ InitAuthPending = {}

C17_Steps ==
    /\ InitAuthReady =>
          ~Truthy(storage.access_token) /\ req' = req /\ user' = NoUser
    /\ \A r \in Req :
          (req[r].pc = "idle" /\ req'[r].caller = "initAuth")
          => initPc = "start" /\ Truthy(storage.access_token) /\ isLoading'
    /\ (isLoading /\ ~isLoading')
          => \/ InitAuthReady
             \/ \E r \in InitAuthPending : req'[r].pc = "done"
    /\ (~isLoading /\ isLoading') => PageUnload

\* the bound on request slots leaves the mount effect without a slot
OutOfSlots ==
    initPc = "start" /\ Truthy(storage.access_token) /\ \A r \in Req : req[r].pc # "idle"

\* C17: startup: the loading flag starts true; with a stored access token the
\* mount effect calls refreshUser once and the flag is cleared only in the step
\* that settles that call; without one no request is issued and the flag is
\* cleared with no user published; the flag is eventually cleared for good and
\* is set again only when the page is loaded anew
C17_Startup ==
    /\ []C17_Positions
    /\ [][C17_Steps]_vars
    /\ <>[](~isLoading \/ OutOfSlots)

\* the mount effect found a token, its refreshUser call has settled with a
\* profile and the flag is cleared
C17_Witness ==
    /\ initPc = "done" /\ ~isLoading
    /\ user = Profile(ApiResponse(1))
    /\ result[1] = Resolved(ApiResponse(1))
    /\ storage = [access_token |-> "a1", refresh_token |-> "r1"]

\* ---------------------------------------------------------------- C18
\* C18: in the onboarding wizard a selected free plan goes with at most 3
\* selected topics, whatever sequence of plan selections, topic toggles, Back
\* and Continue led there, and a submission for the free plan carries at most
\* 3 topic ids
C18_FreePlanLimit ==
    /\ selectedPlan = "free" => Cardinality(selectedTopics) <= FreeMaxTopics
    /\ formData.plan_type = "free" => Cardinality(formData.topic_ids) <= FreeMaxTopics

\* ---------------------------------------------------------------- C19
\* C19: the refresh succeeded and the resend fails with a server error or a
\* transport failure: the caller is rejected with the error of the resend, the
\* client neither removes the pair it has persisted nor redirects (storage at
\* the end of the turn is untouched for a view; refreshUser, as a caller, logs
\* out on any rejection)
C19_ResendFailure ==
    [][\A r \in Req : \A s \in {"500", "network"} :
          (req[r].retry /\ AnswerError(r, s))
          => /\ Has(log[r], "persist")
             /\ result'[r] = Rejected(ApiError(2, s))
             /\ navPending' = navPending
             /\ OnRejected(storage, req[r], ApiError(2, s)).storage = storage
             /\ req[r].caller = "view" => storage' = storage]_vars

\* the /users/me request of the mount effect succeeded; a view's request was
\* refreshed and its resend failed with 500: the refreshed pair is still
\* stored, the user is still published and no redirect is pending
C19_Witness ==
    /\ result[1] = Resolved(ApiResponse(1))
    /\ user = Profile(ApiResponse(1))
    /\ result[2] = Rejected(ApiError(2, "500"))
    /\ storage = [access_token |-> "a2", refresh_token |-> "r2"]
    /\ ~navPending

\* ---------------------------------------------------------------- C20
\* every refresh call on record carries the refresh token as its body and no
\* Authorization header, and a request has at most one
C20_PlainCall ==
    \A r \in Req :
        /\ Count(log[r], "refresh_call") <= 1
        /\ \A i \in 1..Len(log[r]) :
              log[r][i].ev = "refresh_call"
              => /\ log[r][i].auth = NoAuth
                 /\ log[r][i].token = req[r].refreshBody
                 /\ Truthy(log[r][i].token)

\* C20: the refresh call bypasses the client's send path: it is sent with the
\* refresh token as its whole body and without a bearer header even when an
\* access token is stored, and a 401 or any other failure of the refresh
\* endpoint ends the request with that failure instead of starting a refresh
\* for the refresh call
C20_RefreshBypassesClient ==
    /\ []C20_PlainCall
    /\ [][\A r \in Req : \A out \in RefreshOutcomes :
            (out.kind # "ok" /\ req[r].refreshBody # Null /\ RefreshAnswer(r, out))
            => /\ req'[r].pc = "done"
               /\ result'[r] = Rejected(RefreshError(out))
               /\ \A q \in Req : req'[q].pc = "refreshing" => req[q].pc = "refreshing"]_vars

\* a refresh call is in flight without an Authorization header while an access
\* token is stored
C20_Witness ==
    \E r \in Req :
        /\ req[r].pc = "refreshing"
        /\ Truthy(storage.access_token)
        /\ log[r][3] = [ev |-> "refresh_call", token |-> "r1", auth |-> NoAuth]

\* ---------------------------------------------------------------- C21
\* the /users/me request of a login is waiting for an answer
LoginPending == \E r \in Req : req[r].caller = "refreshUser" /\ InProgress(r)

\* the two outcomes of a login
SignedIn == user.kind = "user" /\ storage.access_token # Null /\ storage.refresh_token # Null

SignedOut == user = NoUser /\ storage = NoCredentials

\* C21: login returns while its profile request is still in flight and has
\* published nothing; with the backend answering and no other session
\* operation under way, the login ends in exactly one of two outcomes: a
\* profile is published and both keys are stored, or no user is published and
\* both keys are absent
C21_LoginOutcome ==
    /\ [][\A r \in Req :
            /\ (\E pair \in Pairs : Login(r, pair))
               => req'[r].pc = "inflight" /\ user' = user /\ result'[r] = Pending
            /\ (req[r].caller = "refreshUser" /\ InProgress(r) /\ req'[r].pc = "done")
               => (SignedIn' /\ ~SignedOut') \/ (SignedOut' /\ ~SignedIn')]_vars
    /\ LoginPending ~> (~LoginPending /\ (SignedIn \/ SignedOut))

\* no redirect has happened on this page (the first request resolved), and the
\* login that followed was answered 401 first and ended signed in after the
\* refresh and the resend
C21_Witness ==
    /\ result[1].kind = "resolved"
    /\ result[2] = Resolved(ApiResponse(2))
    /\ user = Profile(ApiResponse(2))
    /\ storage = [access_token |-> "a2", refresh_token |-> "r2"]
    /\ \A r \in Req : ~InProgress(r)

\* ---------------------------------------------------------------- C22
\* request r has persisted the pair of its refresh, that pair is what storage
\* holds, and the refresh call of its sibling q is answered with a failure
SiblingRefreshFails(q, r) ==
    /\ q # r
    /\ Has(log[r], "persist") /\ storage = PersistedPair(r)
    /\ Truthy(storage.refresh_token)
    /\ req[q].refreshBody # Null
    /\ \E out \in RefreshOutcomes : out.kind # "ok" /\ RefreshAnswer(q, out)

\* C22: concurrent 401s, one refresh succeeds: the failed refresh of a sibling
\* does not remove the pair the successful refresh has persisted, so storage
\* still holds a pair when all requests have settled
C22_SiblingKeepsPair ==
    [][\A q, r \in Req : SiblingRefreshFails(q, r) => storage' = storage]_vars

\* C22 (amended): the response handled last decides: the failed refresh of a
\* sibling removes both keys and triggers the redirect although the pair in
\* storage is the one a successful refresh has just persisted, and the request
\* of that refresh goes on with its resend
C22_FailureClearsSiblingPair ==
    [][\A q, r \in Req :
          SiblingRefreshFails(q, r)
          => /\ storage' = NoCredentials
             /\ navPending'
             /\ result'[q].kind = "rejected"
             /\ req'[r] = req[r] /\ req[r].pc = "inflight"]_vars

\* the request whose refresh succeeded was resolved by its resend, its
\* sibling was rejected with the failure of its refresh call, and both keys
\* are absent with the redirect pending
C22_Witness ==
    \E q, r \in Req :
        /\ result[r] = Resolved(ApiResponse(2))
        /\ result[q].kind = "rejected" /\ result[q].value.call = "refresh"
        /\ storage = NoCredentials
        /\ navPending

\* ---------------------------------------------------------------- C23
\* a logout ran while the refresh call of request q was in flight: both keys
\* are absent without a redirect pending (the client's own removals come with
\* a redirect), and the refresh call is still unanswered
RefreshOutlivedLogout(q) ==
    /\ req[q].pc = "refreshing"
    /\ storage = NoCredentials
    /\ ~navPending

\* C23: once logout has run both keys stay absent until the next login: the
\* answer of a refresh call that was in flight when logout ran writes nothing
\* back into storage
C23_LogoutSticks ==
    [][\A q \in Req :
          (RefreshOutlivedLogout(q) /\ \E out \in RefreshOutcomes : RefreshAnswer(q, out))
          => storage' = NoCredentials]_vars

\* ---------------------------------------------------------------- C24
\* a /users/me request that was sent with a token is still in flight after a
\* logout: no user is published and both keys are absent, without a redirect
ProfileFetchOutlivedLogout(q) ==
    /\ req[q].caller \in {"refreshUser", "initAuth"}
    /\ req[q].pc = "inflight"
    /\ req[q].auth.scheme = "Bearer"
    /\ user = NoUser
    /\ storage = NoCredentials
    /\ ~navPending

\* C24: once logout has published user none the user stays none until the
\* next login: the answer of a /users/me call that refreshUser started before
\* the logout publishes no profile, so that no user is published while the
\* access token is absent from storage
C24_LogoutSticksUser ==
    [][\A q \in Req :
          (ProfileFetchOutlivedLogout(q) /\ AnswerOk(q))
          => user' = NoUser /\ (user'.kind = "user" => storage'.access_token # Null)]_vars

\* ---------------------------------------------------------------- C25
Malformed == [kind |-> "malformed"]

\* C25: a refresh call answered with a success status and a body without the
\* data envelope is handled as a refresh failure: both keys are removed, the
\* redirect is triggered, the request is not resent, and the caller is
\* rejected with the error raised while reading the body
C25_MalformedRefresh ==
    [][\A r \in Req :
          (req[r].refreshBody # Null /\ RefreshAnswer(r, Malformed))
          => /\ storage' = NoCredentials
             /\ navPending'
             /\ req'[r].pc = "done"
             /\ log'[r] = <<>>
             /\ result'[r] = Rejected([call |-> "refresh", n |-> 1,
                                       status |-> "TypeError"])]_vars

\* a caller holds the TypeError of a refresh answer without envelope, both
\* keys are absent and the redirect is pending
C25_Witness ==
    \E r \in Req :
        /\ result[r] = Rejected(RefreshError(Malformed))
        /\ storage = NoCredentials
        /\ navPending

\* ---------------------------------------------------------------- C26
\* C26: the wizard's step stays within 1..4; Back is offered only above step
\* 1 and Continue only below step 4; step 2 is not left forward with nothing
\* selected, so that beyond step 2, and in particular at step 4 where the
\* submission is made, at least one topic is selected
C26_StepRange ==
    /\ [](/\ step \in 1..LastStep
          /\ step > 2 => selectedTopics # {}
          /\ formData # NoForm => formData.topic_ids # {})
    /\ [][/\ step' \in {step - 1, step, step + 1}
          /\ (step' = step - 1) => step > 1
          /\ (step' = step + 1) => step < LastStep
          /\ (step = 2 /\ step' = 3) => selectedTopics # {}]_vars

\* the wizard is at step 4 with a submission in flight
C26_Witness ==
    /\ step = LastStep
    /\ isSubmitting
    /\ formData.topic_ids # {}
\* ---------------------------------------------------------------- C27
\* the ids of the podcasts the page displays
Shown(list) == { list[i].id : i \in 1..Len(list) }

\* the ids of a list, in order
Ids(list) == [i \in 1..Len(list) |-> list[i].id]

\* the display is pages 1..page of the filter now selected
ShowsPages ==
    Ids(podcasts) =
        Ids(PageOf(Listing(library, debouncedSearch, MaxPodcasts), 1, page * pageSize))

\* the answer to a polling fetch of the page and filter now on display, with
\* no other fetch in flight
PollAnswered(i) ==
    /\ Len(fetches) = 1 /\ i = 1
    /\ ShowsPages
    /\ fetches[i].silent
    /\ fetches[i].pageNum = page
    /\ fetches[i].search = debouncedSearch
    /\ fetches[i].per_page = pageSize
    /\ FetchAnswered(i)

\* C27: the polling interval of the podcasts page is set exactly while the
\* displayed list has a podcast that is pending or processing, and the answer
\* to a silent polling fetch keeps every podcast that was displayed before it,
\* those appended by Load More included.
C27_PollKeepsList ==
    /\ [](poll # NoPoll <=> hasProcessing(podcasts))
    /\ [][ \A i \in 1..MaxFetch :
              PollAnswered(i) => Shown(podcasts) \subseteq Shown(podcasts') ]_vars
\* ---------------------------------------------------------------- C28
\* C28: whenever isPlaying is true, currentPodcast is a completed podcast and
\* its audio is the one loaded in the audio element.
C28_PlayingIsCurrent ==
    isPlaying =>
        /\ currentPodcast # NoPodcast
        /\ currentPodcast.status = "completed"
        /\ audioSrc = currentPodcast.id
\* ---------------------------------------------------------------- C29
\* the display and the backend agree on every topic but `topic`
AgreeExcept(sel, server, topic) ==
    \A u \in ProfileTopicIds \ {topic} : (u \in sel) <=> (u \in server)

\* C29: when the last toggle request in flight fails while the display agrees
\* with the backend on every other topic (all other toggles have settled and
\* the accepted ones are shown), the revert leaves that agreement: it does not
\* undo a toggle the backend accepted while the failed one was in flight.
C29_RevertKeepsAccepted ==
    [][ ( /\ Len(toggles) = 1
          /\ AgreeExcept(profileTopics, userTopics, toggles[1].topic)
          /\ ToggleRejected(1) )
        => AgreeExcept(profileTopics', userTopics', toggles[1].topic) ]_vars
\* ---------------------------------------------------------------- C30
\* the display is of the filter now selected: its podcasts and its total
ShowsLatest ==
    /\ \A id \in Shown(podcasts) : Matches(id, debouncedSearch)
    /\ total = Len(Listing(library, debouncedSearch, MaxPodcasts))

\* the last fetch in flight is one made under an earlier filter
StaleFetchLast ==
    /\ Len(fetches) = 1
    /\ fetches[1].search # debouncedSearch \/ fetches[1].per_page # pageSize

\* C30: when the filter changed while a list fetch was in flight, the display
\* after all fetches have settled is that of the latest filter in whatever
\* order the answers arrive: once the answer to the latest filter is on
\* display, the answer to the earlier fetch, arriving last, leaves the list and
\* the total of the latest filter on display.
C30_LatestFilterWins ==
    [][ (StaleFetchLast /\ ShowsLatest /\ FetchAnswered(1)) => ShowsLatest' ]_vars

====
